---------------------------- MODULE Spec2Model ----------------------------
(***************************************************************************)
(* Model of RayMarch/src/Main.cpp: the signed distance functions, the      *)
(* sphere tracer, the finite-difference normal, and the OpenMP-parallel    *)
(* render loop followed by the PPM writer.                                 *)
(*                                                                         *)
(* Numbers.  A C++ float is represented in fixed point: the integer n      *)
(* stands for the real n / SCALE.  Products and quotients round toward     *)
(* zero, square roots round down.  NaN is a reserved value that no         *)
(* computation on numbers produces.                                        *)
(*                                                                         *)
(* Three specifications share the module:                                  *)
(*   SpecSDF   - the distance function and its gradient applied to points  *)
(*               of a grid;                                                *)
(*   SpecTrace - one call of sphere_trace / box_trace, one loop iteration  *)
(*               per step;                                                 *)
(*   Spec      - main(): the parallel render loop, then the PPM writer.    *)
(***************************************************************************)
EXTENDS Integers, Sequences, FiniteSets, TLC

VARIABLES
  \* ---- SpecSDF: one evaluation of the box distance function
  p,            \* the argument point
  sd,           \* box_signed_distance(p), once evaluated
  grad,         \* <<nx, ny, nz>> of distance_field_normal_box(p)
  normal,       \* the value distance_field_normal_box(p) returns
  sdf_pc,       \* "input" | "evaluated" | "normal"
  \* ---- SpecTrace: one call of sphere_trace / box_trace
  t_kind,       \* "sphere" | "box" | "none"
  t_orig,       \* argument orig
  t_dir,        \* argument dir
  t_pos,        \* the out-parameter pos
  t_i,          \* the loop counter i
  t_evals,      \* number of SDF evaluations made so far
  t_neg,        \* number of those evaluations that were negative
  t_pc,         \* "call" | "loop" | "hit" | "miss" | "off"
  \* ---- Spec: main()
  m_pc,         \* main thread: "render" | "sink" | "done" | "off"
  nthreads,     \* size of the OpenMP team
  row_owner,    \* row j -> the thread its iteration was given to, 0 = none yet
  w_pc,         \* thread -> "idle" | "trace" | "shade" | "bg" | "joined"
  w_j,          \* thread -> the row it is rendering
  w_i,          \* thread -> the column it is rendering
  hit,          \* storage of the loop-body variable hit, by slot
  framebuffer,  \* index -> colour
  wcount,       \* index -> number of writes made to that element
  fb_writes,    \* the writes made: [idx, i, j, thread, kind, colour]
  fb_oob,       \* a write outside the framebuffer was made
  s_i,          \* the PPM writer's loop counter i
  out           \* the bytes written to out.ppm after the header

sdfVars    == <<p, sd, grad, normal, sdf_pc>>
traceVars  == <<t_kind, t_orig, t_dir, t_pos, t_i, t_evals, t_neg, t_pc>>
workerVars == <<w_pc, w_j, w_i, hit>>
fbVars     == <<framebuffer, wcount, fb_writes, fb_oob>>
renderVars == <<m_pc, nthreads, row_owner, workerVars, fbVars, s_i, out>>
vars       == <<sdfVars, traceVars, renderVars>>

---------------------------------------------------------------------------
(* Bounds of the model *)

\* fixed-point resolution: SCALE units per 1.0
SCALE == 1000

\* the grid of SpecSDF has a point every 1/GridDen, from -GridMax/GridDen to
\* +GridMax/GridDen on each axis
GridDen == 4
GridMax == 4

\* the image is width x height pixels (640 x 480 in main)
width  == 4
height == 3

\* the OpenMP team has 1 .. MaxThreads threads
MaxThreads == 2

---------------------------------------------------------------------------
(* Fixed-point arithmetic *)

\* the real num/den
Fx(num, den) == (num * SCALE) \div den

NaN == -2147483647

Abs(a) == IF a < 0 THEN -a ELSE a

\* C++ integer-style quotient, rounding toward zero (b > 0)
Quot(a, b) == IF a >= 0 THEN a \div b ELSE -((-a) \div b)

\* a * b.  A float keeps relative precision: when an operand is too large for
\* the exact integer product, the larger one is taken in whole units.
FMul(a, b) ==
  IF Abs(a) < 46341 /\ Abs(b) < 46341 THEN Quot(a * b, SCALE)
  ELSE IF Abs(a) >= Abs(b) THEN Quot(a, SCALE) * b
  ELSE a * Quot(b, SCALE)

FDiv(a, b) == Quot(a * SCALE, b)

\* std::max(a, b) is (a < b) ? b : a, every comparison with NaN being false
StdMax(a, b) == IF a # NaN /\ b # NaN /\ a < b THEN b ELSE a

\* F applied to the value of v, v being evaluated once
Bind(v, F(_)) == CHOOSE r \in {F(x) : x \in {v}} : TRUE

RECURSIVE SqrtSearch(_, _, _)
SqrtSearch(n, lo, hi) ==
  IF lo >= hi THEN lo
  ELSE LET mid == (lo + hi + 1) \div 2
       IN  IF mid * mid <= n THEN SqrtSearch(n, mid, hi)
                             ELSE SqrtSearch(n, lo, mid - 1)

\* floor of the square root of n, 0 <= n < 2^31
ISqrt(n) == SqrtSearch(n, 0, 46340)

---------------------------------------------------------------------------
(* geometry.h: Vec3f *)

Vec(x, y, z) == <<x, y, z>>

VAdd(a, b) == <<a[1] + b[1], a[2] + b[2], a[3] + b[3]>>
VSub(a, b) == <<a[1] - b[1], a[2] - b[2], a[3] - b[3]>>

\* Vec3f * float
VScale(a, s) == <<FMul(a[1], s), FMul(a[2], s), FMul(a[3], s)>>

NaNVec == <<NaN, NaN, NaN>>

\* Vec3f * Vec3f, the dot product
Dot(a, b) ==
  IF a = NaNVec \/ b = NaNVec THEN NaN
  ELSE FMul(a[1], b[1]) + FMul(a[2], b[2]) + FMul(a[3], b[3])

\* Vec3f::norm().  A float keeps relative, not absolute, precision: a vector
\* too long for its squares to be summed exactly is measured in coarser units.
Norm(a) ==
  LET m == StdMax(Abs(a[1]), StdMax(Abs(a[2]), Abs(a[3])))
      k == m \div 20000 + 1
  IN  k * ISqrt(Quot(a[1], k) * Quot(a[1], k) + Quot(a[2], k) * Quot(a[2], k)
                + Quot(a[3], k) * Quot(a[3], k))

\* Vec3f::normalize(): a / |a|; 0/0 is NaN
Normalize(a) ==
  LET n == Norm(a)
  IN  IF n = 0 THEN NaNVec
      ELSE <<FDiv(a[1], n), FDiv(a[2], n), FDiv(a[3], n)>>

---------------------------------------------------------------------------
(* Main.cpp: constants and helpers *)

sphere_radius == Fx(25, 100)
sphere_center == Vec(Fx(5, 10), Fx(5, 10), 0)
box_size      == Vec(Fx(25, 100), Fx(25, 100), Fx(25, 100))
box_center    == Vec(Fx(5, 10), Fx(5, 10), 0)
ray_steps     == 128

RECURSIVE mod(_, _)
mod(f, v) ==
  IF f < 0 THEN mod(f + v, v)
  ELSE IF f >= v THEN mod(f - v, v)
  ELSE f

modv(q, val) == <<mod(q[1], val), mod(q[2], val), mod(q[3], val)>>

abs(q) == <<Abs(q[1]), Abs(q[2]), Abs(q[3])>>

max(q, v) == <<IF q[1] > v THEN q[1] ELSE v,
               IF q[2] > v THEN q[2] ELSE v,
               IF q[3] > v THEN q[3] ELSE v>>

maxcompNoZ(q) == IF q[2] > q[1] THEN q[2] ELSE q[1]

maxcomp(q) ==
  LET m1 == q[1]
      m2 == IF q[2] > m1 THEN q[2] ELSE m1
  IN  IF q[3] > m2 THEN q[3] ELSE m2

sphere_signed_distance(q) ==
  Norm(VSub(modv(q, Fx(1, 1)), sphere_center)) - sphere_radius

\* return max( q, 0 ).norm() + ( maxComp < 0 ) ? maxComp : 0;
\* parses as  (norm + (maxComp < 0)) ? maxComp : 0 : the bool is promoted to
\* 0.0f or 1.0f, and the sum is the condition.
box_signed_distance(pt) ==
  LET q       == VSub(VSub(abs(pt), box_center), box_size)
      maxComp == maxcomp(q)
      cond    == Norm(max(q, 0)) + (IF maxComp < 0 THEN Fx(1, 1) ELSE 0)
  IN  IF cond # 0 THEN maxComp ELSE 0

eps == Fx(1, 10)

\* nx, ny, nz of distance_field_normal_box
box_gradient(pos) ==
  LET d == box_signed_distance(pos)
  IN  <<box_signed_distance(VAdd(pos, Vec(eps, 0, 0))) - d,
        box_signed_distance(VAdd(pos, Vec(0, eps, 0))) - d,
        box_signed_distance(VAdd(pos, Vec(0, 0, eps))) - d>>

distance_field_normal_box(pos) == Normalize(box_gradient(pos))

sphere_gradient(pos) ==
  LET d == sphere_signed_distance(pos)
  IN  <<sphere_signed_distance(VAdd(pos, Vec(eps, 0, 0))) - d,
        sphere_signed_distance(VAdd(pos, Vec(0, eps, 0))) - d,
        sphere_signed_distance(VAdd(pos, Vec(0, 0, eps))) - d>>

distance_field_normal_sphere(pos) == Normalize(sphere_gradient(pos))

---------------------------------------------------------------------------
(* SpecSDF: box_signed_distance and distance_field_normal_box on a grid *)

NoVec == <<0, 0, 0>>

GridCoord == {Fx(n, GridDen) : n \in (-GridMax)..GridMax}
Grid      == {Vec(x, y, z) : x \in GridCoord, y \in GridCoord, z \in GridCoord}

\* the point of the normal smoke test, (0.5, 0.5, 0)
SmokePoint == Vec(Fx(5, 10), Fx(5, 10), 0)

TraceOff ==
  /\ t_kind = "none" /\ t_orig = NoVec /\ t_dir = NoVec /\ t_pos = NoVec
  /\ t_i = 0 /\ t_evals = 0 /\ t_neg = 0 /\ t_pc = "off"

SDFOff ==
  /\ p = NoVec /\ sd = 0 /\ grad = NoVec /\ normal = NoVec /\ sdf_pc = "off"

RenderOff ==
  /\ m_pc = "off" /\ nthreads = 0 /\ row_owner = <<>>
  /\ w_pc = <<>> /\ w_j = <<>> /\ w_i = <<>> /\ hit = <<>>
  /\ framebuffer = <<>> /\ wcount = <<>> /\ fb_writes = {} /\ fb_oob = FALSE
  /\ s_i = 0 /\ out = <<>>

InitSDF ==
  /\ p \in Grid \cup {SmokePoint}
  /\ sd = 0 /\ grad = NoVec /\ normal = NoVec
  /\ sdf_pc = "input"
  /\ TraceOff
  /\ RenderOff

EvalBox ==
  /\ sdf_pc = "input"
  /\ sd' = box_signed_distance(p)
  /\ sdf_pc' = "evaluated"
  /\ UNCHANGED <<p, grad, normal, traceVars, renderVars>>

EvalNormal ==
  /\ sdf_pc = "evaluated"
  /\ grad' = box_gradient(p)
  /\ normal' = distance_field_normal_box(p)
  /\ sdf_pc' = "normal"
  /\ UNCHANGED <<p, sd, traceVars, renderVars>>

NextSDF == EvalBox \/ EvalNormal

SpecSDF == InitSDF /\ [][NextSDF]_vars

---------------------------------------------------------------------------
(* sphere_trace / box_trace *)

SDF(kind, pos) ==
  IF kind = "sphere" THEN sphere_signed_distance(pos)
  ELSE box_signed_distance(pos)

\* for( size_t i = 0; i < ray_steps; i++ )
LoopContinuesOffByOne(i) == i <= ray_steps

LoopContinues(i) == i < ray_steps

\* if( d < 0 ) return true;
IsHitOrTouch(d) == d <= 0

IsHit(d) == d < 0

\* pos = pos + dir * std::max( d * 0.1f, .01f );
Advance(pos, dir, d) ==
  VAdd(pos, VScale(dir, StdMax(FMul(d, Fx(1, 10)), Fx(1, 100))))

\* one pass through the loop head and body, from the state st of a call:
\* [pos, i, pc] with pc = "loop" until the call returns
trace_iter(kind, st, dir) ==
  IF st.pc # "loop" THEN st
  ELSE IF ~LoopContinues(st.i) THEN [st EXCEPT !.pc = "miss"]
  ELSE Bind(SDF(kind, st.pos),
            LAMBDA d : IF IsHit(d) THEN [st EXCEPT !.pc = "hit"]
                       ELSE [pos |-> Advance(st.pos, dir, d),
                             i |-> st.i + 1, pc |-> "loop"])

\* n passes, split in halves to keep the evaluation shallow
RECURSIVE trace_run(_, _, _, _)
trace_run(kind, st, dir, n) ==
  IF n = 0 THEN st
  ELSE IF n = 1 THEN trace_iter(kind, st, dir)
  ELSE Bind(trace_run(kind, st, dir, n \div 2),
            LAMBDA half : trace_run(kind, half, dir, n - n \div 2))

\* a whole call: pos = orig, then the loop until it returns, which takes at
\* most ray_steps + 1 tests of the loop condition
trace_call(kind, orig, dir) ==
  Bind(trace_run(kind, [pos |-> orig, i |-> 0, pc |-> "loop"], dir,
                 ray_steps + 2),
       LAMBDA st : [hit |-> st.pc = "hit", pos |-> st.pos])

sphere_trace(orig, dir) == trace_call("sphere", orig, dir)

box_trace(orig, dir) == trace_call("box", orig, dir)

---------------------------------------------------------------------------
(* SpecTrace: one call of a tracer, one loop iteration per step *)

\* origins: the two eyes, a point inside both surfaces, a lattice trough, a
\* point on the box surface and a point on a sphere surface
TraceOrigins ==
  { Vec(Fx(5, 10), Fx(5, 10), Fx(3, 1)),
    Vec(Fx(1, 1), Fx(1, 1), Fx(3, 1)),
    Vec(Fx(5, 10), Fx(5, 10), 0),
    Vec(0, 0, Fx(5, 10)),
    Vec(Fx(75, 100), 0, 0),
    Vec(Fx(75, 100), Fx(5, 10), 0) }

\* unit directions: along the axes, and some oblique ones
TraceDirs ==
  { Vec(Fx(1, 1), 0, 0), Vec(-Fx(1, 1), 0, 0), Vec(0, 0, -Fx(1, 1)),
    Vec(0, 0, Fx(1, 1)),
    Normalize(Vec(-Fx(5, 10), -Fx(5, 10), -Fx(26, 10))),
    Normalize(Vec(Fx(5, 10), Fx(15, 10), -Fx(26, 10))),
    Normalize(Vec(-Fx(1, 10), Fx(1, 10), -Fx(4, 1))) }

InitTrace ==
  /\ t_kind \in {"sphere", "box"}
  /\ t_orig \in TraceOrigins
  /\ t_dir \in TraceDirs
  /\ t_pos = NoVec /\ t_i = 0 /\ t_evals = 0 /\ t_neg = 0
  /\ t_pc = "call"
  /\ SDFOff
  /\ RenderOff

\* pos = orig; i = 0
TraceEnter ==
  /\ t_pc = "call"
  /\ t_pos' = t_orig
  /\ t_i' = 0
  /\ t_pc' = "loop"
  /\ UNCHANGED <<t_kind, t_orig, t_dir, t_evals, t_neg, sdfVars, renderVars>>

\* one iteration whose distance is negative: return true
TraceHit ==
  /\ t_pc = "loop"
  /\ LoopContinues(t_i)
  /\ IsHit(SDF(t_kind, t_pos))
  /\ t_evals' = t_evals + 1
  /\ t_neg' = t_neg + (IF SDF(t_kind, t_pos) < 0 THEN 1 ELSE 0)
  /\ t_pc' = "hit"
  /\ UNCHANGED <<t_kind, t_orig, t_dir, t_pos, t_i, sdfVars, renderVars>>

\* one iteration whose distance is not negative: advance, i++
TraceAdvance ==
  /\ t_pc = "loop"
  /\ LoopContinues(t_i)
  /\ ~IsHit(SDF(t_kind, t_pos))
  /\ t_evals' = t_evals + 1
  /\ t_neg' = t_neg + (IF SDF(t_kind, t_pos) < 0 THEN 1 ELSE 0)
  /\ t_pos' = Advance(t_pos, t_dir, SDF(t_kind, t_pos))
  /\ t_i' = t_i + 1
  /\ UNCHANGED <<t_kind, t_orig, t_dir, t_pc, sdfVars, renderVars>>

\* the loop condition fails: return false
TraceMiss ==
  /\ t_pc = "loop"
  /\ ~LoopContinues(t_i)
  /\ t_pc' = "miss"
  /\ UNCHANGED <<t_kind, t_orig, t_dir, t_pos, t_i, t_evals, t_neg, sdfVars, renderVars>>

NextTrace == TraceEnter \/ TraceHit \/ TraceAdvance \/ TraceMiss

SpecTrace == InitTrace /\ [][NextTrace]_vars

---------------------------------------------------------------------------
(* main(): the render loop *)

\* tan( fov / 2. ) with fov = M_PI / 3.
tan_half_fov == Fx(57735, 100000)

\* bool calcSphere = false;  bool calcBox = true;
calcSphere == FALSE
calcBox    == TRUE

sphere_eye == Vec(Fx(1, 1), Fx(1, 1), Fx(3, 1))
box_eye    == Vec(Fx(5, 10), Fx(5, 10), Fx(3, 1))
light_pos  == Vec(Fx(10, 1), Fx(10, 1), Fx(10, 1))
ambient    == Fx(4, 10)
background == Vec(Fx(2, 10), Fx(7, 10), Fx(8, 10))

\* Vec3f( dir_x, dir_y, dir_z ).normalize()
ray_dir(i, j) ==
  LET dir_x == (Fx(i, 1) + Fx(1, 2)) - Fx(width, 2)
      dir_y == -(Fx(j, 1) + Fx(1, 2)) + Fx(height, 2)
      dir_z == -FDiv(Fx(height, 1), 2 * tan_half_fov)
  IN  Normalize(Vec(dir_x, dir_y, dir_z))

\* the two conditions of the if / else if, in order, with the short circuit:
\* which branch the pixel takes, and what the tracers leave in hit
pixel_trace(i, j) ==
  Bind(ray_dir(i, j), LAMBDA dir :
    LET rs == sphere_trace(sphere_eye, dir)
        rb == box_trace(box_eye, dir)
    IN  IF calcSphere /\ rs.hit THEN [branch |-> "sphere", hit |-> rs.pos]
        ELSE IF calcBox /\ rb.hit THEN [branch |-> "box", hit |-> rb.pos]
        ELSE [branch |-> "bg",
              hit |-> IF calcBox THEN rb.pos
                      ELSE IF calcSphere THEN rs.pos ELSE NoVec])

\* pixel_trace is a function of the pixel alone; it is evaluated once per pixel
PixelTrace == [i \in 0..(width - 1), j \in 0..(height - 1) |-> pixel_trace(i, j)]

\* std::max( 0.4f, light_dir * distance_field_normal_xxx( hit ) )
light_intensity(branch, h) ==
  LET light_dir == Normalize(VSub(light_pos, h))
      n         == IF branch = "sphere" THEN distance_field_normal_sphere(h)
                   ELSE distance_field_normal_box(h)
  IN  StdMax(ambient, Dot(light_dir, n))

shade_color255(I) == VScale(Vec(Fx(255, 1), Fx(255, 1), Fx(255, 1)), I)

\* Vec3f( 1, 1, 1 ) * light_intensity
shade_color(I) == VScale(Vec(Fx(1, 1), Fx(1, 1), Fx(1, 1)), I)

FbIndexSwapped(i, j) == j + i * width

\* framebuffer[i + j * width]
FbIndex(i, j) == i + j * width

\* hit is declared in the loop body: each thread has its own
HitSlotShared(t) == 1

HitSlot(t) == t

FbSize == width * height

Threads == 1..nthreads

Init ==
  /\ m_pc = "render"
  /\ nthreads \in 1..MaxThreads
  /\ row_owner = [j \in 0..(height - 1) |-> 0]
  /\ w_pc = [t \in 1..nthreads |-> "idle"]
  /\ w_j = [t \in 1..nthreads |-> 0]
  /\ w_i = [t \in 1..nthreads |-> 0]
  /\ hit = [t \in 1..nthreads |-> NoVec]
  /\ framebuffer = [k \in 0..(FbSize - 1) |-> NoVec]
  /\ wcount = [k \in 0..(FbSize - 1) |-> 0]
  /\ fb_writes = {}
  /\ fb_oob = FALSE
  /\ s_i = 0
  /\ out = <<>>
  /\ SDFOff
  /\ TraceOff

\* omp parallel for: an iteration j not yet given out goes to one thread
TakeRow(t) ==
  /\ m_pc = "render"
  /\ w_pc[t] = "idle"
  /\ \E j \in 0..(height - 1) :
       /\ row_owner[j] = 0
       /\ row_owner' = [row_owner EXCEPT ![j] = t]
       /\ w_j' = [w_j EXCEPT ![t] = j]
  /\ w_i' = [w_i EXCEPT ![t] = 0]
  /\ w_pc' = [w_pc EXCEPT ![t] = "trace"]
  /\ UNCHANGED <<m_pc, nthreads, hit, fbVars, s_i, out, sdfVars, traceVars>>

\* the conditions of the if / else if: the tracers write hit, the branch is
\* chosen
RenderTrace(t) ==
  /\ w_pc[t] = "trace"
  /\ LET r == PixelTrace[w_i[t], w_j[t]]
     IN  /\ hit' = [hit EXCEPT ![HitSlot(t)] = r.hit]
         /\ w_pc' = [w_pc EXCEPT ![t] = IF r.branch = "bg" THEN "bg" ELSE "shade"]
  /\ UNCHANGED <<m_pc, nthreads, row_owner, w_j, w_i, fbVars, s_i, out,
                 sdfVars, traceVars>>

\* framebuffer[idx] = colour, then i++ and the test i < width
WritePixel(t, kind, colour) ==
  LET i   == w_i[t]
      j   == w_j[t]
      idx == FbIndex(i, j)
  IN  /\ IF idx \in 0..(FbSize - 1)
         THEN /\ framebuffer' = [framebuffer EXCEPT ![idx] = colour]
              /\ wcount' = [wcount EXCEPT ![idx] = @ + 1]
              /\ fb_oob' = fb_oob
         ELSE /\ fb_oob' = TRUE
              /\ UNCHANGED <<framebuffer, wcount>>
      /\ fb_writes' = fb_writes \cup
           {[idx |-> idx, i |-> i, j |-> j, thread |-> t, kind |-> kind,
             colour |-> colour]}
      /\ IF i + 1 < width
         THEN /\ w_i' = [w_i EXCEPT ![t] = i + 1]
              /\ w_pc' = [w_pc EXCEPT ![t] = "trace"]
         ELSE /\ w_i' = w_i
              /\ w_pc' = [w_pc EXCEPT ![t] = "idle"]

\* the body of a hit branch
RenderShade(t) ==
  /\ w_pc[t] = "shade"
  /\ WritePixel(t, "shaded",
       shade_color(light_intensity(PixelTrace[w_i[t], w_j[t]].branch,
                                   hit[HitSlot(t)])))
  /\ UNCHANGED <<m_pc, nthreads, row_owner, w_j, hit, s_i, out,
                 sdfVars, traceVars>>

\* the else branch
RenderBackground(t) ==
  /\ w_pc[t] = "bg"
  /\ WritePixel(t, "background", background)
  /\ UNCHANGED <<m_pc, nthreads, row_owner, w_j, hit, s_i, out,
                 sdfVars, traceVars>>

\* no iteration is left for the thread: it waits at the end of the loop
FinishThread(t) ==
  /\ w_pc[t] = "idle"
  /\ \A j \in 0..(height - 1) : row_owner[j] # 0
  /\ w_pc' = [w_pc EXCEPT ![t] = "joined"]
  /\ UNCHANGED <<m_pc, nthreads, row_owner, w_j, w_i, hit, fbVars, s_i, out,
                 sdfVars, traceVars>>

BarrierNoWait == \E t \in Threads : w_pc[t] = "joined"

\* the implicit barrier that ends the parallel region
Barrier == \A t \in Threads : w_pc[t] = "joined"

Join ==
  /\ m_pc = "render"
  /\ Barrier
  /\ m_pc' = "sink"
  /\ UNCHANGED <<nthreads, row_owner, workerVars, fbVars, s_i, out,
                 sdfVars, traceVars>>

---------------------------------------------------------------------------
(* main(): the PPM writer *)

Min(a, b) == IF b < a THEN b ELSE a

\* std::max( 0, std::min( 255, static_cast<int>( 255 * c ) ) )
Byte(c) == StdMax(0, Min(255, Quot(255 * c, SCALE)))

\* one iteration of the outer loop: the three bytes of framebuffer[i]
SinkWrite ==
  /\ m_pc = "sink"
  /\ s_i < FbSize
  /\ out' = Append(out, <<Byte(framebuffer[s_i][1]), Byte(framebuffer[s_i][2]),
                          Byte(framebuffer[s_i][3])>>)
  /\ s_i' = s_i + 1
  /\ UNCHANGED <<m_pc, nthreads, row_owner, workerVars, fbVars,
                 sdfVars, traceVars>>

SinkClose ==
  /\ m_pc = "sink"
  /\ s_i >= FbSize
  /\ m_pc' = "done"
  /\ UNCHANGED <<nthreads, row_owner, workerVars, fbVars, s_i, out,
                 sdfVars, traceVars>>

Next ==
  \/ \E t \in Threads : TakeRow(t)
  \/ \E t \in Threads : RenderTrace(t)
  \/ \E t \in Threads : RenderShade(t)
  \/ \E t \in Threads : RenderBackground(t)
  \/ \E t \in Threads : FinishThread(t)
  \/ Join
  \/ SinkWrite
  \/ SinkClose

Spec == Init /\ [][Next]_vars

---------------------------------------------------------------------------
(* Claims about the box distance function (SpecSDF) *)

SDFEvaluated == sdf_pc \in {"evaluated", "normal"}

InsideBox(pt) ==
  \A k \in 1..3 : Abs(pt[k] - box_center[k]) < box_size[k]

OutsideBox(pt) ==
  \E k \in 1..3 : Abs(pt[k] - box_center[k]) > box_size[k]

\* C1: a point strictly within box_size of box_center on every axis has a
\* distance <= 0, and a point farther than box_size from box_center on some
\* axis has a distance > 0.
C1_SignAgreement ==
  SDFEvaluated => /\ InsideBox(p) => sd <= 0
                  /\ OutsideBox(p) => sd > 0

\* the canonical distance of the claim: norm(max(q,0)) + min(maxcomp(q),0)
CanonicalBox(pt) ==
  LET q  == VSub(VSub(abs(pt), box_center), box_size)
      mc == maxcomp(q)
  IN  Norm(max(q, 0)) + (IF mc < 0 THEN mc ELSE 0)

\* C2: box_signed_distance(p) is the canonical box distance, the Euclidean
\* norm of the positive parts of q plus the largest component of q when that
\* is negative.
C2_CanonicalDistance ==
  SDFEvaluated => sd = CanonicalBox(p)

\* C9 as stated: at (0.5,0.5,0) the forward difference nz is positive and
\* strictly larger than |nx| and |ny|.
C9_NormalAlongZ ==
  (sdf_pc = "normal" /\ p = SmokePoint) =>
     /\ grad[3] > 0
     /\ grad[3] > Abs(grad[1])
     /\ grad[3] > Abs(grad[2])

\* C9 amended: at (0.5,0.5,0) the three forward differences are equal and
\* positive (each is eps), so the normal has three equal positive components:
\* it points along the diagonal (1,1,1), not along +z.
C9_NormalAlongDiagonal ==
  (sdf_pc = "normal" /\ p = SmokePoint) =>
     /\ grad = <<eps, eps, eps>>
     /\ normal # NaNVec
     /\ normal[1] > 0 /\ normal[1] = normal[2] /\ normal[2] = normal[3]

C9_Witness == sdf_pc = "normal" /\ p = SmokePoint

---------------------------------------------------------------------------
(* Claims about the tracers (SpecTrace) *)

MAX_STEPS == 128

TraceReturned == t_pc \in {"hit", "miss"}

\* C3: a trace evaluates its distance function at most MAX_STEPS times and
\* then returns: every step of the loop either returns or uses up one of the
\* MAX_STEPS iterations.  It returns false only after exactly MAX_STEPS
\* evaluations, none of them negative.
C3_StepBudget ==
  /\ [](/\ t_evals <= MAX_STEPS
        /\ t_pc = "loop" => t_evals = t_i
        /\ t_pc = "miss" => (t_evals = MAX_STEPS /\ t_neg = 0))
  /\ [][t_pc = "loop" =>
          \/ t_pc' \in {"hit", "miss"}
          \/ t_pc' = "loop" /\ t_i' = t_i + 1 /\ t_i' <= MAX_STEPS]_vars

\* the ray along +x from a lattice trough never enters a sphere
C3_Witness ==
  /\ t_pc = "miss" /\ t_evals = MAX_STEPS
  /\ t_kind = "sphere"
  /\ t_orig = Vec(0, 0, Fx(5, 10))
  /\ t_dir = Vec(Fx(1, 1), 0, 0)

\* the sequence of the claim, p_0 = orig and
\* p_(n+1) = p_n + dir * max(0.1 * sdf(p_n), 0.01), followed up to the first
\* p_n with a negative distance: s = [pos |-> p_n, n |-> n, found |-> ...]
SeqStep(kind, s, dir) ==
  IF s.found \/ s.n >= MAX_STEPS THEN s
  ELSE Bind(SDF(kind, s.pos), LAMBDA d :
         IF d < 0 THEN [s EXCEPT !.found = TRUE]
         ELSE Bind(FMul(d, Fx(1, 10)), LAMBDA len :
                [pos   |-> VAdd(s.pos, VScale(dir, IF len > Fx(1, 100) THEN len
                                                   ELSE Fx(1, 100))),
                 n     |-> s.n + 1,
                 found |-> FALSE]))

RECURSIVE SeqRun(_, _, _, _)
SeqRun(kind, s, dir, k) ==
  IF k = 0 THEN s
  ELSE IF k = 1 THEN SeqStep(kind, s, dir)
  ELSE Bind(SeqRun(kind, s, dir, k \div 2),
            LAMBDA half : SeqRun(kind, half, dir, k - k \div 2))

\* the first p_n, n < MAX_STEPS, with a negative distance, if there is one
FirstNegative(kind, orig, dir) ==
  SeqRun(kind, [pos |-> orig, n |-> 0, found |-> FALSE], dir, MAX_STEPS)

\* C10: the trace returns hit exactly when some p_n, n < MAX_STEPS, has a
\* negative distance, and the position returned is then p_n for the smallest
\* such n; a point at distance exactly 0 is not a hit.
C10_HitPosition ==
  TraceReturned =>
    LET r == FirstNegative(t_kind, t_orig, t_dir)
    IN  /\ (t_pc = "hit") = r.found
        /\ t_pc = "hit" => (t_pos = r.pos /\ t_i = r.n)

\* a hit after at least one advance, from an origin at distance exactly 0
C10_Witness ==
  /\ t_pc = "hit" /\ t_i > 0
  /\ SDF(t_kind, t_orig) = 0

---------------------------------------------------------------------------
(* Claims about main() (Spec) *)

Pixels == (0..(width - 1)) \X (0..(height - 1))

RenderOver == m_pc \in {"sink", "done"}

InUnit(c) == 0 <= c /\ c <= Fx(1, 1)

\* C4: every colour written to the framebuffer has its three components in
\* [0,1]; a missed ray writes the background (0.2,0.7,0.8), a hit writes a grey
\* (I,I,I) with 0.4 <= I <= 1.0.
C4_ColourRange ==
  \A w \in fb_writes :
    /\ \A k \in 1..3 : InUnit(w.colour[k])
    /\ (w.kind = "background") = (PixelTrace[w.i, w.j].branch = "bg")
    /\ w.kind = "background" =>
         w.colour = <<Fx(2, 10), Fx(7, 10), Fx(8, 10)>>
    /\ w.kind = "shaded" =>
         /\ w.colour[1] = w.colour[2] /\ w.colour[2] = w.colour[3]
         /\ Fx(4, 10) <= w.colour[1] /\ w.colour[1] <= Fx(1, 1)
    /\ framebuffer[w.idx] = w.colour

\* a background pixel and a pixel lit above the ambient floor were written
C4_Witness ==
  /\ \E w \in fb_writes : w.kind = "background"
  /\ \E w \in fb_writes : w.kind = "shaded" /\ w.colour[1] > Fx(4, 10)

\* C5: every pixel (i,j) is written exactly once, by one thread, at index
\* i + j*W; the index lies in [0, W*H) and differs for different pixels, so no
\* element is written twice and, once the loop is over, none is left unwritten.
C5_WrittenOnce ==
  /\ ~fb_oob
  /\ \A k \in DOMAIN wcount : wcount[k] <= 1
  /\ \A w \in fb_writes :
       /\ w.idx = w.i + w.j * width
       /\ 0 <= w.idx /\ w.idx < width * height
       /\ w.thread = row_owner[w.j]
  /\ \A w1, w2 \in fb_writes :
       (w1.idx = w2.idx \/ (w1.i = w2.i /\ w1.j = w2.j)) => w1 = w2
  /\ RenderOver =>
       /\ \A px \in Pixels : \E w \in fb_writes : w.i = px[1] /\ w.j = px[2]
       /\ \A k \in DOMAIN wcount : wcount[k] = 1

\* the loop is over and two threads each wrote pixels
C5_Witness ==
  /\ RenderOver
  /\ \E w1, w2 \in fb_writes : w1.thread # w2.thread

\* the colour of pixel (i,j) as a function of (i,j) and the constants alone
PixelColour(i, j) ==
  LET r == PixelTrace[i, j]
  IN  IF r.branch = "bg" THEN background
      ELSE shade_color(light_intensity(r.branch, r.hit))

\* C6: the framebuffer is the same for every team size and every
\* interleaving: each element written holds a value that depends on its (i,j)
\* alone, and once the loop is over the whole framebuffer is that function of
\* the pixel.
C6_Deterministic ==
  /\ \A w \in fb_writes : w.colour = PixelColour(w.i, w.j)
  /\ RenderOver =>
       \A px \in Pixels :
         framebuffer[px[1] + px[2] * width] = PixelColour(px[1], px[2])

\* the loop is over and two different threads each shaded a hit pixel
C6_Witness ==
  /\ RenderOver
  /\ \E w1, w2 \in fb_writes :
       w1.thread # w2.thread /\ w1.kind = "shaded" /\ w2.kind = "shaded"

AllWritten == \A k \in DOMAIN wcount : wcount[k] >= 1

\* C7: the PPM writer reads the framebuffer only after every thread has
\* finished and all W*H pixels are written, and no pixel is written once the
\* writer has started.
C7_SinkAfterJoin ==
  /\ [](RenderOver =>
          /\ AllWritten
          /\ \A t \in Threads : w_pc[t] = "joined")
  /\ [][(s_i' # s_i \/ out' # out) => (RenderOver /\ AllWritten)]_vars
  /\ [][RenderOver => (framebuffer' = framebuffer /\ fb_writes' = fb_writes
                       /\ wcount' = wcount)]_vars

\* the writer has read elements of a framebuffer that several threads filled
C7_Witness ==
  /\ m_pc = "sink" /\ s_i > 0
  /\ \E w1, w2 \in fb_writes : w1.thread # w2.thread

\* C8: in the box scene the colour written for pixel (i,j) equals the colour
\* written for pixel (W-1-i, j).
C8_MirrorSymmetry ==
  \A w1, w2 \in fb_writes :
    (w1.j = w2.j /\ w2.i = width - 1 - w1.i) => w1.colour = w2.colour

=============================================================================
